---- MODULE Spec2Model ----
(***************************************************************************)
(* State-machine model of the ibc-callbacks-counter contract               *)
(* (integration-tests/contracts/ibc/ibc-callbacks-counter/src/contract.rs).*)
(*                                                                         *)
(* The Counter Store is the COUNTERS map (Addr -> Counter).  Every entry   *)
(* point of the contract (instantiate, execute, ibc_source_callback,       *)
(* ibc_destination_callback, query) is one action; the host runs one       *)
(* invocation to completion before the next.                               *)
(*                                                                         *)
(* Option<T> is modelled as a sequence of length 0 (None) or 1 (Some).     *)
(* Binary values are modelled by their bytes written as text.              *)
(***************************************************************************)
EXTENDS Integers, Sequences, FiniteSets, TLC

VARIABLES
    COUNTERS,        \* the keyed table owner -> Option<Counter>
    contract_info,   \* the cw2 name/version stamp, None until instantiate
    overflowChecks,  \* build profile: does i32 `+` panic on overflow (TRUE) or wrap (FALSE)
    pkgVersion,      \* build manifest: the package version cargo hands to env!
    pre,             \* COUNTERS as it was when the last invocation started
    last,            \* the last invocation: its inputs and what it returned
    acks,            \* number of acknowledgement outcomes applied so far
    timeouts,        \* number of timeout outcomes applied so far
    delivered_acks,      \* acknowledgement outcomes handed to receive_ack so far
    delivered_timeouts,  \* timeout outcomes handed to ibc_timeout so far
    inst,            \* the instantiate invocation's inputs, None until it ran
    transfer_sent    \* has a TransferFunds execution emitted a transfer yet

vars == <<COUNTERS, contract_info, overflowChecks, pkgVersion, pre, last, acks, timeouts,
          delivered_acks, delivered_timeouts, inst, transfer_sent>>

----------------------------------------------------------------------------
(* Bounds of the model *)

\* how many callback outcomes one behaviour applies to the store
MaxCallbacks == 3

----------------------------------------------------------------------------
(* Program constants *)

CONTRACT_NAME == "callbacks_counter"

\* package versions a build of the contract may carry; the manifest that
\* fixes the version is not part of the contract's source file
PackageVersionInputs == {"0.1.0", "1.2.3"}

\* env!("CARGO_PKG_VERSION"): the text of the package version, fixed when
\* the contract is compiled
CONTRACT_VERSION == pkgVersion

\* i32 range of Counter.count
I32Max == 2147483647
I32Min == -I32Max - 1

\* the address of this contract (env.contract.address) and other accounts
ContractAddr == "contract"
Addrs == {ContractAddr, "creator", "other"}

None == <<>>
Some(v) == <<v>>

\* a stored value whose bytes do not deserialize to a Counter: neither None nor
\* Some(counter); COUNTERS.may_load / load fail on it with StdError::ParseErr
Unparsable == <<"bytes", "not a Counter">>

\* inputs the entry points are driven with
CountInputs == {I32Min, -1, 0, 5, I32Max - 10, I32Max - 9, I32Max - 1, I32Max}
PortInputs == {"transfer", "wasm.contract", ""}
AckDataInputs == {"{\"result\":\"AQ==\"}", "{\"result\":\"AA==\"}",
                  "{\"error\":\"transfer failed\"}", ""}
ChannelInputs == {"channel-0", ""}
RecipientInputs == {"recipient1", ""}
AmountInputs == {[denom |-> "utestcore", amount |-> 100], [denom |-> "utestcore", amount |-> 0]}
\* block time, as (seconds, nanoseconds within the second) of a u64 nanosecond count
BlockTimeInputs == {[seconds |-> 1700000000, subsec_nanos |-> 0],
                    [seconds |-> 0, subsec_nanos |-> 999999999]}

----------------------------------------------------------------------------
(* Encodings *)

B64Alphabet ==
    <<"A","B","C","D","E","F","G","H","I","J","K","L","M","N","O","P",
      "Q","R","S","T","U","V","W","X","Y","Z","a","b","c","d","e","f",
      "g","h","i","j","k","l","m","n","o","p","q","r","s","t","u","v",
      "w","x","y","z","0","1","2","3","4","5","6","7","8","9","+","/">>

B64Char(n) == B64Alphabet[n + 1]

\* standard base64 with padding, as Binary's serde implementation writes it
RECURSIVE Base64(_)
Base64(bytes) ==
    IF Len(bytes) = 0 THEN ""
    ELSE IF Len(bytes) = 1 THEN
        B64Char(bytes[1] \div 4) \o B64Char((bytes[1] % 4) * 16) \o "=="
    ELSE IF Len(bytes) = 2 THEN
        B64Char(bytes[1] \div 4)
          \o B64Char((bytes[1] % 4) * 16 + bytes[2] \div 16)
          \o B64Char((bytes[2] % 16) * 4) \o "="
    ELSE
        B64Char(bytes[1] \div 4)
          \o B64Char((bytes[1] % 4) * 16 + bytes[2] \div 16)
          \o B64Char((bytes[2] % 16) * 4 + bytes[3] \div 64)
          \o B64Char(bytes[3] % 64)
          \o Base64(SubSeq(bytes, 4, Len(bytes)))

\* StdAck::success(data).to_binary(): the JSON text {"result":"<base64 of data>"}
StdAckSuccessBinary(data) == "{\"result\":\"" \o Base64(data) \o "\"}"

\* Coin's Display: amount followed by denom
CoinToString(coin) == ToString(coin.amount) \o coin.denom

\* Coin's JSON: {"denom":"..","amount":".."} (Uint128 is written as a string)
CoinToJson(coin) ==
    "{\"denom\":\"" \o coin.denom \o "\",\"amount\":\"" \o ToString(coin.amount) \o "\"}"

RECURSIVE CoinsToJson(_)
CoinsToJson(coins) ==
    IF Len(coins) = 0 THEN ""
    ELSE IF Len(coins) = 1 THEN CoinToJson(coins[1])
    ELSE CoinToJson(coins[1]) \o "," \o CoinsToJson(Tail(coins))

\* to_json_binary(&GetCountResponse { count })
GetCountResponseJson(resp) == "{\"count\":" \o ToString(resp.count) \o "}"

\* to_json_binary(&GetTotalFundsResponse { total_funds })
GetTotalFundsResponseJson(resp) == "{\"total_funds\":[" \o CoinsToJson(resp.total_funds) \o "]}"

----------------------------------------------------------------------------
(* Results of an invocation.  One record shape for every entry point:      *)
(*   ok         TRUE for Ok(..), FALSE for Err(..) or a panic              *)
(*   err        "" | "GenericErr" | "NotFound" | "Panic"                   *)
(*   errmsg     the message of a GenericErr                                *)
(*   attributes the response attributes, <<key, value>> pairs              *)
(*   messages   the messages the response carries                          *)
(*   data       the binary a query returns                                 *)
(***************************************************************************)

OkResponse(attributes, messages, data) ==
    [ok |-> TRUE, err |-> "", errmsg |-> "", attributes |-> attributes,
     messages |-> messages, data |-> data]

ErrResponse(err, errmsg) ==
    [ok |-> FALSE, err |-> err, errmsg |-> errmsg, attributes |-> <<>>,
     messages |-> <<>>, data |-> ""]

----------------------------------------------------------------------------
(* Counter Store and arithmetic *)

Counter(count, total_funds, owner) ==
    [count |-> count, total_funds |-> total_funds, owner |-> owner]

EmptyStore == [a \in Addrs |-> None]

\* i32 `a + b` for b > 0: in range it is the sum; out of range the build either
\* panics (overflow checks on) or wraps modulo 2^32 (overflow checks off)
add_i32(a, b, checks) ==
    IF a > I32Max - b
    THEN IF checks
         THEN [panic |-> TRUE, value |-> 0]
         ELSE [panic |-> FALSE, value |-> I32Min + (a - (I32Max - b) - 1)]
    ELSE [panic |-> FALSE, value |-> a + b]

\* Faulty variant: the first acknowledgement starts the count at 0 instead of 1
receive_ack_update_counter_FromZero(counter, checks) ==
    IF counter = None
    THEN [panic |-> FALSE, value |-> 0]
    ELSE add_i32(counter[1].count, 1, checks)

\* the closures receive_ack passes to update_counter
receive_ack_update_counter(counter, checks) ==
    IF counter = None
    THEN [panic |-> FALSE, value |-> 1]
    ELSE add_i32(counter[1].count, 1, checks)

receive_ack_update_funds(counter) == <<>>

\* the closures ibc_timeout passes to update_counter
ibc_timeout_update_counter(counter, checks) ==
    IF counter = None
    THEN [panic |-> FALSE, value |-> 10]
    ELSE add_i32(counter[1].count, 10, checks)

\* Faulty variant: the timeout closure carries the prior total_funds over
ibc_timeout_update_funds_KeepsFunds(counter) ==
    IF counter = None THEN <<>> ELSE counter[1].total_funds

ibc_timeout_update_funds(counter) == <<>>

\* Faulty variant: the update requires an existing counter and fails with
\* NotFound when there is none
update_counter_RequiresExisting(storage, sender, kind, checks) ==
    LET state == storage[sender]
        c == IF kind = "ack"
             THEN receive_ack_update_counter(state, checks)
             ELSE ibc_timeout_update_counter(state, checks)
    IN  IF state = None
        THEN [ok |-> FALSE, err |-> "NotFound", storage |-> storage]
        ELSE IF state = Unparsable
        THEN [ok |-> FALSE, err |-> "ParseErr", storage |-> storage]
        ELSE IF c.panic
        THEN [ok |-> FALSE, err |-> "Panic", storage |-> storage]
        ELSE [ok |-> TRUE, err |-> "",
              storage |-> [storage EXCEPT ![sender] =
                              <<[count |-> c.value, total_funds |-> <<>>, owner |-> sender]>>]]

\* Faulty variant: saving the updated counter drops the other owners' counters
update_counter_ReplacesTable(storage, sender, kind, checks) ==
    LET state == storage[sender]
        c == IF kind = "ack"
             THEN receive_ack_update_counter(state, checks)
             ELSE ibc_timeout_update_counter(state, checks)
    IN  IF state = Unparsable
        THEN [ok |-> FALSE, err |-> "ParseErr", storage |-> storage]
        ELSE IF c.panic
        THEN [ok |-> FALSE, err |-> "Panic", storage |-> storage]
        ELSE [ok |-> TRUE, err |-> "",
              storage |-> [a \in DOMAIN storage |->
                              IF a = sender
                              THEN <<[count |-> c.value, total_funds |-> <<>>, owner |-> sender]>>
                              ELSE <<>>]]

\* Faulty variant: the updated counter keeps the owner of the counter it
\* replaces and has no owner when it is the first
update_counter_OwnerFromState(storage, sender, kind, checks) ==
    LET state == storage[sender]
        c == IF kind = "ack"
             THEN receive_ack_update_counter(state, checks)
             ELSE ibc_timeout_update_counter(state, checks)
    IN  IF state = Unparsable
        THEN [ok |-> FALSE, err |-> "ParseErr", storage |-> storage]
        ELSE IF c.panic
        THEN [ok |-> FALSE, err |-> "Panic", storage |-> storage]
        ELSE [ok |-> TRUE, err |-> "",
              storage |-> [storage EXCEPT ![sender] =
                              <<[count |-> c.value, total_funds |-> <<>>,
                                 owner |-> IF state = <<>> THEN "" ELSE state[1].owner]>>]]

\* utils::update_counter: COUNTERS.update(storage, sender, closure).  The closure
\* pair is named by `kind` ("ack" for receive_ack's, "timeout" for ibc_timeout's).
\* update loads the current value (Err when it does not parse), builds the new
\* Counter and saves it last, so an Err or a panic saves nothing.
update_counter(storage, sender, kind, checks) ==
    LET state == storage[sender]
        c == IF kind = "ack"
             THEN receive_ack_update_counter(state, checks)
             ELSE ibc_timeout_update_counter(state, checks)
        f == IF kind = "ack"
             THEN receive_ack_update_funds(state)
             ELSE ibc_timeout_update_funds(state)
    IN  IF state = Unparsable
        THEN [ok |-> FALSE, err |-> "ParseErr", storage |-> storage]
        ELSE IF c.panic
        THEN [ok |-> FALSE, err |-> "Panic", storage |-> storage]
        ELSE [ok |-> TRUE, err |-> "",
              storage |-> [storage EXCEPT ![sender] = Some(Counter(c.value, f, sender))]]

receive_ack(storage, contract, success, checks) ==
    LET u == update_counter(storage, contract, "ack", checks)
    IN  IF u.ok
        THEN [storage |-> u.storage,
              res |-> OkResponse(<< <<"action", "ack">> >>, <<>>, "")]
        ELSE IF u.err = "Panic"
        THEN [storage |-> storage, res |-> ErrResponse("Panic", "attempt to add with overflow")]
        ELSE [storage |-> storage, res |-> ErrResponse(u.err, "error parsing into type Counter")]

ibc_timeout(storage, contract, checks) ==
    LET u == update_counter(storage, contract, "timeout", checks)
    IN  IF u.ok
        THEN [storage |-> u.storage,
              res |-> OkResponse(<< <<"action", "timeout">> >>, <<>>, "")]
        ELSE IF u.err = "Panic"
        THEN [storage |-> storage, res |-> ErrResponse("Panic", "attempt to add with overflow")]
        ELSE [storage |-> storage, res |-> ErrResponse(u.err, "error parsing into type Counter")]

\* .map_err(|e| StdError::generic_err(e.to_string()))?  -- a panic is not an Err
\* and unwinds through it unchanged
map_err_generic(r) ==
    IF r.res.ok \/ r.res.err = "Panic"
    THEN r
    ELSE [storage |-> r.storage, res |-> ErrResponse("GenericErr", r.res.errmsg)]

----------------------------------------------------------------------------
(* Entry points, as functions from (storage, inputs) to (storage, response) *)

\* Faulty variant: the initial counter is saved under the contract's address
instantiate_UnderContractKey(storage, sender, msg) ==
    [storage |-> [storage EXCEPT !["contract"] = <<[count |-> msg.count, total_funds |-> <<>>,
                                                    owner |-> sender]>>],
     info |-> <<[contract |-> CONTRACT_NAME, version |-> CONTRACT_VERSION]>>,
     res |-> OkResponse(<< <<"method", "instantiate">>,
                           <<"owner", sender>>,
                           <<"count", ToString(msg.count)>> >>, <<>>, "")]

instantiate(storage, sender, msg) ==
    [storage |-> [storage EXCEPT ![sender] = Some(Counter(msg.count, <<>>, sender))],
     info |-> Some([contract |-> CONTRACT_NAME, version |-> CONTRACT_VERSION]),
     res |-> OkResponse(<< <<"method", "instantiate">>,
                           <<"owner", sender>>,
                           <<"count", ToString(msg.count)>> >>, <<>>, "")]

\* u64::MAX nanoseconds, as whole minutes, seconds and nanoseconds
U64MaxNanos == [minutes |-> 307445734, seconds |-> 33, subsec_nanos |-> 709551615]

\* Faulty variant: the minutes are added as seconds
plus_minutes_AsSeconds(time, m) ==
    [panic |-> FALSE,
     value |-> [seconds |-> time.seconds + m, subsec_nanos |-> time.subsec_nanos]]

\* Timestamp::plus_minutes: adds m * 60 * 10^9 to the u64 nanosecond count; the
\* Uint64 addition panics when the sum does not fit u64
plus_minutes(time, m) ==
    LET minutes == time.seconds \div 60 + m
        seconds == time.seconds % 60
    IN  IF \/ minutes > U64MaxNanos.minutes
           \/ /\ minutes = U64MaxNanos.minutes
              /\ \/ seconds > U64MaxNanos.seconds
                 \/ /\ seconds = U64MaxNanos.seconds
                    /\ time.subsec_nanos > U64MaxNanos.subsec_nanos
        THEN [panic |-> TRUE, value |-> time]
        ELSE [panic |-> FALSE,
              value |-> [seconds |-> time.seconds + m * 60,
                         subsec_nanos |-> time.subsec_nanos]]

transfer_funds(env, channel, amount, recipient) ==
    LET deadline == plus_minutes(env.block_time, 5)
        msg == [channel_id |-> channel,
                to_address |-> recipient,
                amount |-> amount,
                timeout_timestamp |-> deadline.value,
                src_callback |-> [address |-> env.contract_address, gas_limit |-> None]]
    IN  IF deadline.panic
        THEN ErrResponse("Panic", "attempt to add with overflow")
        ELSE OkResponse(<< <<"action", "transfer_funds">>,
                           <<"channel", channel>>,
                           <<"amount", CoinToString(amount)>>,
                           <<"recipient", recipient>> >>,
                        << msg >>, "")

\* Faulty variant: TransferFunds also counts the transfer on the contract's counter
execute_CountsTransfer(storage, env, msg) ==
    [storage |-> receive_ack(storage, env.contract_address, TRUE, FALSE).storage,
     res |-> transfer_funds(env, msg.channel, msg.amount, msg.recipient)]

execute(storage, env, msg) ==
    [storage |-> storage,
     res |-> transfer_funds(env, msg.channel, msg.amount, msg.recipient)]

\* Faulty variant: the source callback indexes by the account that set the contract up
ibc_source_callback_KeyedByCreator(storage, env, msg, checks) ==
    LET r == IF msg.tag = "Acknowledgement"
             THEN map_err_generic(receive_ack(storage, "creator", TRUE, checks))
             ELSE map_err_generic(ibc_timeout(storage, "creator", checks))
    IN  IF r.res.ok
        THEN [storage |-> r.storage,
              res |-> OkResponse(<< <<"action", "ibc_source_callback">> >>, <<>>, "")]
        ELSE [storage |-> storage, res |-> r.res]

ibc_source_callback(storage, env, msg, checks) ==
    LET r == IF msg.tag = "Acknowledgement"
             THEN map_err_generic(receive_ack(storage, env.contract_address, TRUE, checks))
             ELSE map_err_generic(ibc_timeout(storage, env.contract_address, checks))
    IN  IF r.res.ok
        THEN [storage |-> r.storage,
              res |-> OkResponse(<< <<"action", "ibc_source_callback">> >>, <<>>, "")]
        ELSE [storage |-> storage, res |-> r.res]

\* Faulty variant: a qualifying destination callback is applied as a timeout
ibc_destination_callback_AsTimeout(storage, env, msg, checks) ==
    IF msg.port_id # "transfer"
    THEN [storage |-> storage,
          res |-> ErrResponse("GenericErr", "only want to handle transfer packets")]
    ELSE IF msg.ack_data # StdAckSuccessBinary(<<1>>)
    THEN [storage |-> storage,
          res |-> ErrResponse("GenericErr", "only want to handle successful transfers")]
    ELSE LET r == map_err_generic(ibc_timeout(storage, env.contract_address, checks))
         IN  IF r.res.ok
             THEN [storage |-> r.storage,
                   res |-> OkResponse(<< <<"action", "ibc_destination_callback">> >>, <<>>, "")]
             ELSE [storage |-> storage, res |-> r.res]

\* Faulty variant: the destination callback does not check the packet's port
ibc_destination_callback_NoPortCheck(storage, env, msg, checks) ==
    IF msg.ack_data # StdAckSuccessBinary(<<1>>)
    THEN [storage |-> storage,
          res |-> ErrResponse("GenericErr", "only want to handle successful transfers")]
    ELSE LET r == map_err_generic(receive_ack(storage, env.contract_address, TRUE, checks))
         IN  IF r.res.ok
             THEN [storage |-> r.storage,
                   res |-> OkResponse(<< <<"action", "ibc_destination_callback">> >>, <<>>, "")]
             ELSE [storage |-> storage, res |-> r.res]

\* Faulty variant: the destination callback does not check the acknowledgement payload
ibc_destination_callback_NoAckCheck(storage, env, msg, checks) ==
    IF msg.port_id # "transfer"
    THEN [storage |-> storage,
          res |-> ErrResponse("GenericErr", "only want to handle transfer packets")]
    ELSE LET r == map_err_generic(receive_ack(storage, env.contract_address, TRUE, checks))
         IN  IF r.res.ok
             THEN [storage |-> r.storage,
                   res |-> OkResponse(<< <<"action", "ibc_destination_callback">> >>, <<>>, "")]
             ELSE [storage |-> storage, res |-> r.res]

\* Faulty variant: the destination callback updates the counter first and
\* checks the packet afterwards, keeping the update when it rejects the packet
ibc_destination_callback_UpdatesBeforeChecks(storage, env, msg, checks) ==
    LET r == map_err_generic(receive_ack(storage, env.contract_address, TRUE, checks))
    IN  IF msg.port_id # "transfer"
        THEN [storage |-> r.storage,
              res |-> ErrResponse("GenericErr", "only want to handle transfer packets")]
        ELSE IF msg.ack_data # StdAckSuccessBinary(<<1>>)
        THEN [storage |-> r.storage,
              res |-> ErrResponse("GenericErr", "only want to handle successful transfers")]
        ELSE IF r.res.ok
        THEN [storage |-> r.storage,
              res |-> OkResponse(<< <<"action", "ibc_destination_callback">> >>, <<>>, "")]
        ELSE [storage |-> storage, res |-> r.res]

ibc_destination_callback(storage, env, msg, checks) ==
    IF msg.port_id # "transfer"
    THEN [storage |-> storage,
          res |-> ErrResponse("GenericErr", "only want to handle transfer packets")]
    ELSE IF msg.ack_data # StdAckSuccessBinary(<<1>>)
    THEN [storage |-> storage,
          res |-> ErrResponse("GenericErr", "only want to handle successful transfers")]
    ELSE LET r == map_err_generic(receive_ack(storage, env.contract_address, TRUE, checks))
         IN  IF r.res.ok
             THEN [storage |-> r.storage,
                   res |-> OkResponse(<< <<"action", "ibc_destination_callback">> >>, <<>>, "")]
             ELSE [storage |-> storage, res |-> r.res]

\* Faulty variant: a missing counter loads as a default one
load_OrDefault(storage, addr) ==
    IF storage[addr] = None \/ storage[addr] = Unparsable
    THEN [ok |-> TRUE, err |-> "",
          value |-> [count |-> 0, total_funds |-> <<>>, owner |-> addr]]
    ELSE [ok |-> TRUE, err |-> "", value |-> storage[addr][1]]

\* COUNTERS.load: the Counter, or StdError::NotFound (StdError::ParseErr when the
\* stored bytes do not parse)
load(storage, addr) ==
    IF storage[addr] = None
    THEN [ok |-> FALSE, err |-> "NotFound", value |-> Counter(0, <<>>, addr)]
    ELSE IF storage[addr] = Unparsable
    THEN [ok |-> FALSE, err |-> "ParseErr", value |-> Counter(0, <<>>, addr)]
    ELSE [ok |-> TRUE, err |-> "", value |-> storage[addr][1]]

query_count(storage, addr) ==
    LET state == load(storage, addr)
    IN  IF state.ok
        THEN [ok |-> TRUE, err |-> "", resp |-> [count |-> state.value.count]]
        ELSE [ok |-> FALSE, err |-> state.err, resp |-> [count |-> 0]]

query_total_funds(storage, addr) ==
    LET state == load(storage, addr)
    IN  IF state.ok
        THEN [ok |-> TRUE, err |-> "", resp |-> [total_funds |-> state.value.total_funds]]
        ELSE [ok |-> FALSE, err |-> state.err, resp |-> [total_funds |-> <<>>]]

query(storage, msg) ==
    IF msg.tag = "GetCount"
    THEN LET q == query_count(storage, msg.addr)
         IN  IF q.ok THEN OkResponse(<<>>, <<>>, GetCountResponseJson(q.resp))
             ELSE ErrResponse(q.err, "")
    ELSE LET q == query_total_funds(storage, msg.addr)
         IN  IF q.ok THEN OkResponse(<<>>, <<>>, GetTotalFundsResponseJson(q.resp))
             ELSE ErrResponse(q.err, "")

----------------------------------------------------------------------------
(* The state machine *)

Env(time) == [contract_address |-> ContractAddr, block_time |-> time]

Invocation(op, args, res) == [op |-> op, args |-> args, res |-> res]

Init ==
    /\ COUNTERS = EmptyStore
    /\ contract_info = None
    /\ overflowChecks \in BOOLEAN
    /\ pkgVersion \in PackageVersionInputs
    /\ pre = EmptyStore
    /\ last = Invocation("none", [x |-> 0], OkResponse(<<>>, <<>>, ""))
    /\ acks = 0
    /\ timeouts = 0
    /\ delivered_acks = 0
    /\ delivered_timeouts = 0
    /\ inst = None
    /\ transfer_sent = FALSE

\* the host instantiates the contract once, before any other entry point runs
Instantiate ==
    /\ contract_info = None
    /\ \E sender \in Addrs, n \in CountInputs :
         LET msg == [count |-> n]
             r == instantiate(COUNTERS, sender, msg)
         IN  /\ COUNTERS' = r.storage
             /\ contract_info' = r.info
             /\ pre' = COUNTERS
             /\ last' = Invocation("instantiate", [sender |-> sender, count |-> n], r.res)
             /\ inst' = Some([sender |-> sender, count |-> n])
    /\ UNCHANGED <<overflowChecks, pkgVersion, acks, timeouts, delivered_acks, delivered_timeouts,
                   transfer_sent>>

Execute ==
    /\ contract_info # None
    /\ \E channel \in ChannelInputs, amount \in AmountInputs,
          recipient \in RecipientInputs, time \in BlockTimeInputs :
         LET msg == [tag |-> "TransferFunds", channel |-> channel,
                     amount |-> amount, recipient |-> recipient]
             r == execute(COUNTERS, Env(time), msg)
         IN  /\ COUNTERS' = r.storage
             /\ pre' = COUNTERS
             /\ last' = Invocation("execute", msg @@ [time |-> time], r.res)
             /\ transfer_sent' = (transfer_sent \/ (r.res.ok /\ Len(r.res.messages) > 0))
    /\ UNCHANGED <<contract_info, overflowChecks, pkgVersion, acks, timeouts, delivered_acks,
                   delivered_timeouts, inst>>

IbcSourceCallback ==
    /\ contract_info # None
    /\ delivered_acks + delivered_timeouts < MaxCallbacks
    /\ \E tag \in {"Acknowledgement", "Timeout"}, ack_data \in AckDataInputs :
         LET msg == [tag |-> tag, ack_data |-> IF tag = "Timeout" THEN "" ELSE ack_data]
             r == ibc_source_callback(COUNTERS, Env([seconds |-> 0, subsec_nanos |-> 0]),
                                      msg, overflowChecks)
         IN  /\ COUNTERS' = r.storage
             /\ pre' = COUNTERS
             /\ last' = Invocation("ibc_source_callback", msg, r.res)
             /\ acks' = IF r.res.ok /\ tag = "Acknowledgement" THEN acks + 1 ELSE acks
             /\ timeouts' = IF r.res.ok /\ tag = "Timeout" THEN timeouts + 1 ELSE timeouts
             /\ delivered_acks' = IF tag = "Acknowledgement"
                                  THEN delivered_acks + 1 ELSE delivered_acks
             /\ delivered_timeouts' = IF tag = "Timeout"
                                      THEN delivered_timeouts + 1 ELSE delivered_timeouts
    /\ UNCHANGED <<contract_info, overflowChecks, pkgVersion, inst, transfer_sent>>

IbcDestinationCallback ==
    /\ contract_info # None
    /\ delivered_acks + delivered_timeouts < MaxCallbacks
    /\ \E port_id \in PortInputs, ack_data \in AckDataInputs :
         LET msg == [port_id |-> port_id, ack_data |-> ack_data]
             r == ibc_destination_callback(COUNTERS, Env([seconds |-> 0, subsec_nanos |-> 0]),
                                           msg, overflowChecks)
         IN  /\ COUNTERS' = r.storage
             /\ pre' = COUNTERS
             /\ last' = Invocation("ibc_destination_callback", msg, r.res)
             /\ acks' = IF r.res.ok THEN acks + 1 ELSE acks
             /\ delivered_acks' =
                    IF port_id = "transfer" /\ ack_data = StdAckSuccessBinary(<<1>>)
                    THEN delivered_acks + 1 ELSE delivered_acks
    /\ UNCHANGED <<contract_info, overflowChecks, pkgVersion, timeouts, delivered_timeouts, inst,
                   transfer_sent>>

Query ==
    /\ contract_info # None
    /\ \E tag \in {"GetCount", "GetTotalFunds"}, addr \in Addrs :
         LET msg == [tag |-> tag, addr |-> addr]
         IN  /\ last' = Invocation("query", msg, query(COUNTERS, msg))
             /\ pre' = COUNTERS
    /\ UNCHANGED <<COUNTERS, contract_info, overflowChecks, pkgVersion, acks, timeouts,
                   delivered_acks, delivered_timeouts, inst, transfer_sent>>

Next ==
    \/ Instantiate
    \/ Execute
    \/ IbcSourceCallback
    \/ IbcDestinationCallback
    \/ Query

Spec == Init /\ [][Next]_vars

----------------------------------------------------------------------------
(* The same state machine started from any Counter Store.  The transition   *)
(* functions are total over Option<Counter>; this specification applies     *)
(* them to stores whose counters carry arbitrary counts and total_funds,    *)
(* and to stored values that do not deserialize.                            *)

AnyCountInputs == {0, 7, I32Max}
AnyFundsInputs == {<<>>, << [denom |-> "utestcore", amount |-> 100] >>}
AnyStoreKeys == {ContractAddr, "creator"}

StoreInputs ==
    { [a \in Addrs |->
         IF a \notin AnyStoreKeys \/ p[a][1] = "none"
         THEN None
         ELSE IF p[a][1] = "unparsable"
         THEN Unparsable
         ELSE Some(Counter(p[a][2], p[a][3], a))] :
      p \in [AnyStoreKeys -> {<<"none">>, <<"unparsable">>}
                               \cup ({"some"} \X AnyCountInputs \X AnyFundsInputs)] }

InitAnyStore ==
    \/ Init
    \/ /\ COUNTERS \in StoreInputs
       /\ pkgVersion \in PackageVersionInputs
       /\ contract_info = Some([contract |-> CONTRACT_NAME, version |-> CONTRACT_VERSION])
       /\ overflowChecks \in BOOLEAN
       /\ pre = COUNTERS
       /\ last = Invocation("none", [x |-> 0], OkResponse(<<>>, <<>>, ""))
       /\ acks = 0
       /\ timeouts = 0
       /\ delivered_acks = 0
       /\ delivered_timeouts = 0
       /\ inst = None
       /\ transfer_sent = FALSE

SpecAnyStore == InitAnyStore /\ [][Next]_vars

----------------------------------------------------------------------------
(* Properties *)

\* what the last invocation was
LastIsSourceAck == last.op = "ibc_source_callback" /\ last.args.tag = "Acknowledgement"
LastIsSourceTimeout == last.op = "ibc_source_callback" /\ last.args.tag = "Timeout"
LastIsDestination == last.op = "ibc_destination_callback"
LastIsCallback == last.op \in {"ibc_source_callback", "ibc_destination_callback"}

\* the literal bytes of a successful transfer acknowledgement
CanonicalSuccessAck == "{\"result\":\"AQ==\"}"

LastIsQualifyingDestination ==
    /\ LastIsDestination
    /\ last.args.port_id = "transfer"
    /\ last.args.ack_data = CanonicalSuccessAck

\* C1: with no prior counter under the key, an acknowledgement callback
\* establishes count = 1 and a timeout callback establishes count = 10.  Stated
\* for the callback the program ran last (the key is the contract's own address)
\* and for update_counter applied to every key that has no counter.
C1_FirstCallbackEstablishesCount ==
    /\ (LastIsSourceAck /\ pre[ContractAddr] = None) =>
          /\ last.res.ok
          /\ COUNTERS[ContractAddr] # None
          /\ COUNTERS[ContractAddr][1].count = 1
    /\ (LastIsSourceTimeout /\ pre[ContractAddr] = None) =>
          /\ last.res.ok
          /\ COUNTERS[ContractAddr] # None
          /\ COUNTERS[ContractAddr][1].count = 10
    /\ \A a \in Addrs :
          COUNTERS[a] = None =>
             /\ receive_ack(COUNTERS, a, TRUE, overflowChecks).storage[a] # None
             /\ receive_ack(COUNTERS, a, TRUE, overflowChecks).storage[a][1].count = 1
             /\ ibc_timeout(COUNTERS, a, overflowChecks).storage[a] # None
             /\ ibc_timeout(COUNTERS, a, overflowChecks).storage[a][1].count = 10

C1_Witness ==
    /\ LastIsSourceTimeout
    /\ pre[ContractAddr] = None
    /\ COUNTERS[ContractAddr] # None
    /\ COUNTERS[ContractAddr][1].count = 10
    /\ pre["creator"] # None

\* C2: with a counter of count = c under the key, an acknowledgement callback
\* yields count = c + 1 and a timeout callback yields count = c + 10 (c + 1 and
\* c + 10 are the integers' sums, so they must also be counts an i32 can hold).
C2_CallbackAddsToExistingCount ==
    /\ (LastIsSourceAck /\ pre[ContractAddr] # None) =>
          /\ COUNTERS[ContractAddr] # None
          /\ pre[ContractAddr][1].count <= I32Max - 1
          /\ COUNTERS[ContractAddr][1].count = pre[ContractAddr][1].count + 1
    /\ (LastIsSourceTimeout /\ pre[ContractAddr] # None) =>
          /\ COUNTERS[ContractAddr] # None
          /\ pre[ContractAddr][1].count <= I32Max - 10
          /\ COUNTERS[ContractAddr][1].count = pre[ContractAddr][1].count + 10

\* C3: after a callback-driven transition (a successful source acknowledgement,
\* source timeout or qualifying destination callback) the updated counter's
\* total_funds is empty, whatever it held before.
C3_TotalFundsEmptyAfterCallback ==
    (LastIsCallback /\ last.res.ok) =>
        /\ COUNTERS[ContractAddr] # None
        /\ COUNTERS[ContractAddr][1].total_funds = <<>>

C3_Witness ==
    /\ LastIsSourceTimeout
    /\ last.res.ok
    /\ pre[ContractAddr] # None
    /\ pre[ContractAddr][1].total_funds # <<>>
    /\ COUNTERS[ContractAddr][1].total_funds = <<>>

\* C4: a destination callback on port "transfer" carrying the canonical success
\* acknowledgement leaves the store exactly as a source Acknowledgement callback
\* (with any acknowledgement payload) would have left it from the same store.
C4_QualifyingDestinationActsAsSourceAck ==
    LastIsQualifyingDestination =>
        \A ack_data \in AckDataInputs :
            LET src == ibc_source_callback(pre, Env([seconds |-> 0, subsec_nanos |-> 0]),
                                           [tag |-> "Acknowledgement", ack_data |-> ack_data],
                                           overflowChecks)
            IN  /\ COUNTERS = src.storage
                /\ last.res.ok = src.res.ok

C4_Witness ==
    /\ LastIsQualifyingDestination
    /\ last.res.ok
    /\ pre[ContractAddr] # None
    /\ pre[ContractAddr][1].total_funds # <<>>
    /\ pre[ContractAddr][1].count < I32Max
    /\ COUNTERS[ContractAddr][1].count = pre[ContractAddr][1].count + 1

\* C5 as stated: a destination callback whose port is not "transfer" changes no
\* state and returns a success response.
C5_NonTransferPortReturnsSuccess ==
    (LastIsDestination /\ last.args.port_id # "transfer") =>
        /\ COUNTERS = pre
        /\ last.res.ok

\* C5 (amended): a destination callback whose port is not "transfer" changes no
\* state and is rejected with the generic error "only want to handle transfer
\* packets".
C5_NonTransferPortRejectedUnchanged ==
    (LastIsDestination /\ last.args.port_id # "transfer") =>
        /\ COUNTERS = pre
        /\ ~last.res.ok
        /\ last.res.err = "GenericErr"
        /\ last.res.errmsg = "only want to handle transfer packets"

C5_Witness ==
    /\ LastIsDestination
    /\ last.args.port_id = "wasm.contract"
    /\ last.args.ack_data = CanonicalSuccessAck
    /\ pre[ContractAddr] # None
    /\ COUNTERS = pre
    /\ last.res.err = "GenericErr"

\* C6: a destination callback on port "transfer" whose acknowledgement payload
\* is not the canonical success encoding leaves every counter unchanged.
C6_NonSuccessAckLeavesStoreUnchanged ==
    (/\ LastIsDestination
     /\ last.args.port_id = "transfer"
     /\ last.args.ack_data # CanonicalSuccessAck) =>
        \A a \in Addrs : COUNTERS[a] = pre[a]

C6_Witness ==
    /\ LastIsDestination
    /\ last.args.port_id = "transfer"
    /\ last.args.ack_data = "{\"error\":\"transfer failed\"}"
    /\ pre[ContractAddr] # None
    /\ COUNTERS = pre

\* C7: GetCount and GetTotalFunds fail with NotFound for an owner without a
\* counter and return exactly the stored count / total_funds for an owner with
\* one, in every reachable state and in every query the program answered.
C7_QueriesReturnStoredOrNotFound ==
    /\ \A a \in Addrs :
          /\ COUNTERS[a] = None =>
                /\ query(COUNTERS, [tag |-> "GetCount", addr |-> a]) = ErrResponse("NotFound", "")
                /\ query(COUNTERS, [tag |-> "GetTotalFunds", addr |-> a]) = ErrResponse("NotFound", "")
          /\ COUNTERS[a] # None =>
                /\ query_count(COUNTERS, a).ok
                /\ query_count(COUNTERS, a).resp.count = COUNTERS[a][1].count
                /\ query_total_funds(COUNTERS, a).ok
                /\ query_total_funds(COUNTERS, a).resp.total_funds = COUNTERS[a][1].total_funds
                /\ query(COUNTERS, [tag |-> "GetCount", addr |-> a]).ok
                /\ query(COUNTERS, [tag |-> "GetTotalFunds", addr |-> a]).ok
    /\ (last.op = "query" /\ COUNTERS[last.args.addr] = None) =>
          (~last.res.ok /\ last.res.err = "NotFound")
    /\ (last.op = "query" /\ COUNTERS[last.args.addr] # None /\ last.args.tag = "GetCount") =>
          /\ last.res.ok
          /\ last.res.data = "{\"count\":" \o ToString(COUNTERS[last.args.addr][1].count) \o "}"

C7_Witness ==
    /\ last.op = "query"
    /\ last.args.tag = "GetCount"
    /\ last.args.addr = "other"
    /\ COUNTERS["other"] = None
    /\ COUNTERS["creator"] # None
    /\ last.res.err = "NotFound"

\* C8: instantiate with count = n by sender A stores Counter {count: n,
\* total_funds: [], owner: A} under key A, and GetCount(A) then returns n.
C8_InstantiateStoresCounter ==
    last.op = "instantiate" =>
        /\ last.res.ok
        /\ COUNTERS[last.args.sender] =
               Some([count |-> last.args.count, total_funds |-> <<>>,
                     owner |-> last.args.sender])
        /\ query_count(COUNTERS, last.args.sender) =
               [ok |-> TRUE, err |-> "", resp |-> [count |-> last.args.count]]
        /\ query(COUNTERS, [tag |-> "GetCount", addr |-> last.args.sender]).data =
               "{\"count\":" \o ToString(last.args.count) \o "}"

C8_Witness ==
    /\ last.op = "instantiate"
    /\ last.args.sender = "creator"
    /\ last.args.count = 5
    /\ query(COUNTERS, [tag |-> "GetCount", addr |-> "creator"]).data = "{\"count\":5}"

\* C9: an invocation that is not a callback (TransferFunds execute, GetCount or
\* GetTotalFunds query) leaves the whole Counter Store unchanged.
C9_NonCallbacksLeaveStoreUnchanged ==
    (last.op \in {"execute", "query"}) => COUNTERS = pre

C9_Witness ==
    /\ last.op = "execute"
    /\ last.res.ok
    /\ Len(last.res.messages) = 1
    /\ COUNTERS[ContractAddr] # None
    /\ COUNTERS = pre

\* C10: a callback changes at most the counter keyed by the contract's own
\* address; every other owner's counter is as it was before the callback.
C10_CallbacksTouchOnlyContractSlot ==
    LastIsCallback =>
        \A a \in Addrs \ {ContractAddr} : COUNTERS[a] = pre[a]

C10_Witness ==
    /\ LastIsCallback
    /\ last.res.ok
    /\ pre["creator"] # None
    /\ COUNTERS["creator"] = pre["creator"]
    /\ COUNTERS[ContractAddr] # pre[ContractAddr]

\* C11: every TransferFunds execution returns success with exactly one outbound
\* transfer message, whose timeout is the block time plus 5 minutes (300
\* seconds) and whose source callback names the contract's own address, and
\* with the attributes action=transfer_funds, channel, amount, recipient.
C11_TransferFundsEmitsOneTransfer ==
    last.op = "execute" =>
        /\ last.res.ok
        /\ Len(last.res.messages) = 1
        /\ last.res.messages[1].channel_id = last.args.channel
        /\ last.res.messages[1].to_address = last.args.recipient
        /\ last.res.messages[1].amount = last.args.amount
        /\ last.res.messages[1].timeout_timestamp =
               [seconds |-> last.args.time.seconds + 300,
                subsec_nanos |-> last.args.time.subsec_nanos]
        /\ last.res.messages[1].src_callback.address = ContractAddr
        /\ last.res.attributes =
               << <<"action", "transfer_funds">>,
                  <<"channel", last.args.channel>>,
                  <<"amount", ToString(last.args.amount.amount) \o last.args.amount.denom>>,
                  <<"recipient", last.args.recipient>> >>

C11_Witness ==
    /\ last.op = "execute"
    /\ last.args.channel = "channel-0"
    /\ last.args.amount = [denom |-> "utestcore", amount |-> 100]
    /\ last.args.time.seconds = 1700000000
    /\ last.res.messages[1].timeout_timestamp.seconds = 1700000300
    /\ last.res.attributes[3] = <<"amount", "100utestcore">>

\* the count initially stored at the contract's own address (0 if none was)
InitialContractCount ==
    IF inst # None /\ inst[1].sender = ContractAddr THEN inst[1].count ELSE 0

\* C12: after a acknowledgement outcomes (source acknowledgements and qualifying
\* destination callbacks) and t timeout outcomes were delivered, in any order,
\* the count at the contract's address is c0 + a + 10 * t, c0 being the count
\* first stored there (0 if none): one update per delivered outcome.
C12_CountIsInitialPlusOutcomes ==
    (inst # None /\ delivered_acks + delivered_timeouts > 0) =>
        /\ COUNTERS[ContractAddr] # None
        /\ InitialContractCount <= I32Max - (delivered_acks + 10 * delivered_timeouts)
        /\ COUNTERS[ContractAddr][1].count =
               InitialContractCount + delivered_acks + 10 * delivered_timeouts

\* C13: a successful callback never leaves the stored count lower than it was
\* before the callback, for every stored count of the i32 range.
C13_SuccessfulCallbackNeverLowersCount ==
    (LastIsCallback /\ last.res.ok /\ pre[ContractAddr] # None) =>
        COUNTERS[ContractAddr][1].count >= pre[ContractAddr][1].count

\* C14: an invocation that ends in an error (a callback that fails inside
\* update_counter, a rejected destination callback, a failing query) leaves the
\* Counter Store exactly as it was before the invocation; a callback whose
\* counter cannot be read fails with a generic error and writes nothing.
C14_FailedInvocationLeavesStoreUnchanged ==
    /\ ~last.res.ok => COUNTERS = pre
    /\ (LastIsCallback /\ pre[ContractAddr] = Unparsable) =>
          /\ ~last.res.ok
          /\ last.res.err = "GenericErr"
          /\ COUNTERS = pre

C14_Witness ==
    /\ LastIsSourceTimeout
    /\ pre[ContractAddr] = Unparsable
    /\ pre["creator"] # None
    /\ last.res.err = "GenericErr"
    /\ last.res.errmsg = "error parsing into type Counter"
    /\ COUNTERS = pre
    /\ delivered_timeouts = 1
    /\ timeouts = 0

\* C15 as stated: a source Acknowledgement has the same effect on the store
\* whatever its acknowledgement payload (success or failure), and that effect is
\* the count at the contract's address incremented by 1, or set to 1 when there
\* was no counter.
C15_AnyAcknowledgementIncrementsByOne ==
    LastIsSourceAck =>
        /\ \A ack_data \in AckDataInputs :
              ibc_source_callback(pre, Env([seconds |-> 0, subsec_nanos |-> 0]),
                                  [tag |-> "Acknowledgement", ack_data |-> ack_data],
                                  overflowChecks).storage = COUNTERS
        /\ COUNTERS[ContractAddr] # None
        /\ pre[ContractAddr] = None => COUNTERS[ContractAddr][1].count = 1
        /\ pre[ContractAddr] # None =>
              /\ pre[ContractAddr][1].count <= I32Max - 1
              /\ COUNTERS[ContractAddr][1].count = pre[ContractAddr][1].count + 1

\* C16 as stated: a callback creates or mutates the counter at the contract's
\* address only after at least one TransferFunds execution by this program.
C16_MutatingCallbackPrecededByTransfer ==
    (acks + timeouts > 0) => transfer_sent

\* a callback that reaches update_counter: a source callback, or a destination
\* callback that passes both checks
LastIsDeliveredOutcome ==
    \/ last.op = "ibc_source_callback"
    \/ LastIsQualifyingDestination

\* C16 (amended): the first callback delivered to the program when no counter
\* exists at the contract's address succeeds and creates that counter (count 1
\* for an acknowledgement, 10 for a timeout, no funds, owned by the contract's
\* address), whether or not a TransferFunds execution preceded it.
C16_FirstCallbackCreatesCounter ==
    (LastIsDeliveredOutcome /\ pre[ContractAddr] = None) =>
        /\ last.res.ok
        /\ COUNTERS[ContractAddr] =
              Some([count |-> IF LastIsSourceTimeout THEN 10 ELSE 1,
                    total_funds |-> <<>>,
                    owner |-> ContractAddr])

C16_Witness ==
    /\ LastIsQualifyingDestination
    /\ ~transfer_sent
    /\ pre[ContractAddr] = None
    /\ COUNTERS[ContractAddr] # None
    /\ COUNTERS[ContractAddr][1].count = 1

\* C17: a counter exists only for an owner that instantiate or a successful
\* callback has written: the keys with a counter are among the instantiating
\* sender and the contract's own address, and the contract's address has one
\* only if it was the instantiating sender or a callback has succeeded.
C17_CountersOnlyForWrittenOwners ==
    /\ \A a \in Addrs :
          COUNTERS[a] # None =>
             /\ inst # None
             /\ (a = inst[1].sender \/ a = ContractAddr)
    /\ COUNTERS[ContractAddr] # None =>
          /\ inst # None
          /\ (inst[1].sender = ContractAddr \/ acks + timeouts > 0)

C17_Witness ==
    /\ inst # None
    /\ inst[1].sender = "creator"
    /\ COUNTERS["creator"] # None
    /\ COUNTERS[ContractAddr] # None
    /\ COUNTERS["other"] = None
    /\ acks + timeouts = 1

\* C18: counters are never deleted: an owner that has a counter has one in the
\* next state too, whatever the invocation, and GetCount for it keeps
\* succeeding.
C18_CountersNeverDeleted ==
    [][\A a \in Addrs :
          COUNTERS[a] # None =>
             /\ COUNTERS'[a] # None
             /\ query_count(COUNTERS', a).ok]_vars

C18_Witness ==
    /\ LastIsSourceAck
    /\ last.res.ok
    /\ pre["creator"] # None
    /\ pre[ContractAddr] # None
    /\ query_count(COUNTERS, "creator").ok
    /\ query_count(COUNTERS, ContractAddr).ok

\* C19: the owner of a counter equals the key it is stored under, and no
\* invocation changes the owner of a counter that exists.
C19_OwnerIsKeyAndImmutable ==
    /\ \A k \in Addrs :
          COUNTERS[k] # None => COUNTERS[k][1].owner = k
    /\ \A k \in Addrs :
          (pre[k] # None /\ COUNTERS[k] # None) => COUNTERS[k][1].owner = pre[k][1].owner

C19_Witness ==
    /\ LastIsSourceTimeout
    /\ last.res.ok
    /\ pre[ContractAddr] # None
    /\ pre[ContractAddr][1].owner = ContractAddr
    /\ COUNTERS[ContractAddr][1].owner = ContractAddr
    /\ COUNTERS[ContractAddr][1].count # pre[ContractAddr][1].count
    /\ COUNTERS["creator"] # None
    /\ COUNTERS["creator"][1].owner = "creator"

====
